---- MODULE Spec2Model ----
(***************************************************************************)
(* Model of self_rewarding_lm_pytorch/spin.py: the masked mean, the SPIN   *)
(* objective (SPIN.forward), the reference snapshot held by a SPIN object  *)
(* and the self-play training round (SPINTrainer.forward).                 *)
(*                                                                         *)
(* Numbers.  A tensor entry is a rational <<n, d>> with d > 0, or NaN,     *)
(* written <<0, 0>>.  Log-probabilities are integers (units of one nat).   *)
(* An Optional value is a record: None, or Some(v).                        *)
(* A 2-d tensor is a sequence of rows, each row a sequence of entries;     *)
(* a tensor handed to SPIN.forward also carries its rank (ndim).           *)
(***************************************************************************)
EXTENDS Integers, Sequences, FiniteSets, TLC

\* ------------------------------------------------------------------ bounds

\* longest token sequence drawn as an input of SPIN.forward / masked_mean
MaxLen == 2
\* most optimizer steps a caller of SPIN takes
MaxSteps == 2
\* most backward passes accumulated before gradients are cleared
MaxAccum == 2
\* largest dataset, batch size and epoch count a trainer is configured with
MaxData == 3
MaxBatch == 2
MaxEpochs == 2
\* most calls of SPINTrainer.forward on one trainer
MaxRounds == 2
\* max_seq_len: the most tokens the sampler returns for one prompt
MaxSeqLen == 1

\* ------------------------------------------------------- program constants

\* masked_mean's eps = 1e-5, kept as its inverse
EpsInv == 100000
\* log of log_prob_from_model_and_seq's eps = 1e-20, in whole nats
LogEps == -46
\* SPINTrainer's default pad_id
PadId == -1

\* rows of a batch (the b dimension)
Rows == 1 .. 2
\* token ids a sequence may hold besides the pad id
Vocab == {0}

\* ------------------------------------------------------------- Optional

None == [exists |-> FALSE]
Some(v) == [exists |-> TRUE, v |-> v]
exists(v) == v.exists

\* ------------------------------------------------------------- rationals

Rat(n) == <<n, 1>>
NaN == <<0, 0>>
IsNaN(a) == a[2] = 0
RatAdd(a, b) ==
    IF IsNaN(a) \/ IsNaN(b) THEN NaN ELSE <<a[1] * b[2] + b[1] * a[2], a[2] * b[2]>>
RatSub(a, b) ==
    IF IsNaN(a) \/ IsNaN(b) THEN NaN ELSE <<a[1] * b[2] - b[1] * a[2], a[2] * b[2]>>
\* a * k for a 0/1 factor k (a bool mask promoted to float): NaN * 0 is NaN
RatMulInt(a, k) == IF IsNaN(a) THEN NaN ELSE <<a[1] * k, a[2]>>
\* a / b for b > 0
RatDiv(a, b) == IF IsNaN(a) THEN NaN ELSE <<a[1] * b[2], a[2] * b[1]>>
RatLess(a, b) == a[1] * b[2] < b[1] * a[2]
\* the same number (NaN is taken to equal NaN: the same result)
RatSame(a, b) ==
    IF IsNaN(a) \/ IsNaN(b) THEN IsNaN(a) /\ IsNaN(b) ELSE a[1] * b[2] = b[1] * a[2]

\* ------------------------------------------------------------ tensor ops

\* tensor.sum(dim = -1) of one row
RECURSIVE SumRow(_)
SumRow(row) ==
    IF row = <<>> THEN Rat(0) ELSE RatAdd(row[1], SumRow(Tail(row)))

\* mask.sum(dim = -1) of one row
RECURSIVE CountTrue(_)
CountTrue(row) ==
    IF row = <<>> THEN 0 ELSE (IF row[1] THEN 1 ELSE 0) + CountTrue(Tail(row))

\* ~mask
Not(mask) == [r \in DOMAIN mask |-> [i \in DOMAIN mask[r] |-> ~mask[r][i]]]

\* mask & rest_mask
And(m1, m2) == [r \in DOMAIN m1 |-> [i \in DOMAIN m1[r] |-> m1[r][i] /\ m2[r][i]]]

\* tensor.masked_fill_(where, value)
masked_fill(tensor, where, value) ==
    [r \in DOMAIN tensor |->
        [i \in DOMAIN tensor[r] |-> IF where[r][i] THEN value ELSE tensor[r][i]]]

\* total_el.clamp(min = eps)
clamp_min_eps(total_el) ==
    IF RatLess(Rat(total_el), <<1, EpsInv>>) THEN <<1, EpsInv>> ELSE Rat(total_el)

\* a plausible slip: the masked-out entries are multiplied by the mask, not overwritten
ZeroMaskedOutByMul(tensor, mask) ==
    [r \in DOMAIN tensor |->
        [i \in DOMAIN tensor[r] |-> RatMulInt(tensor[r][i], IF mask[r][i] THEN 1 ELSE 0)]]

\* masked_mean, line 44: tensor.masked_fill_(~mask, 0.)
ZeroMaskedOut(tensor, mask) == masked_fill(tensor, Not(mask), Rat(0))

\* masked_mean(tensor, mask): the returned mean, one rational per row, and the
\* tensor as the call leaves it (it is overwritten in place)
masked_mean(tensor, mask) ==
    IF ~exists(mask)
    THEN [mean   |-> [r \in DOMAIN tensor |->
                        RatDiv(SumRow(tensor[r]), Rat(Len(tensor[r])))],
          tensor |-> tensor]
    ELSE LET filled   == ZeroMaskedOut(tensor, mask.v)
             total_el == [r \in DOMAIN tensor |-> CountTrue(mask.v[r])]
             mean     == [r \in DOMAIN tensor |->
                            RatDiv(SumRow(filled[r]), clamp_min_eps(total_el[r]))]
         IN  [mean   |-> [r \in DOMAIN tensor |->
                            IF total_el[r] = 0 THEN Rat(0) ELSE mean[r]],
              tensor |-> filled]

\* maybe_and_mask(*masks): masks is a sequence of Optional masks
RECURSIVE AndAll(_, _)
AndAll(mask, rest_masks) ==
    IF rest_masks = <<>> THEN mask
    ELSE AndAll(And(mask, rest_masks[1]), Tail(rest_masks))

\* a plausible slip: only the first mask is kept
maybe_and_mask_first(masks) ==
    LET present == SelectSeq(masks, exists)
    IN  IF Len(present) = 0 THEN None ELSE Some(present[1].v)

maybe_and_mask(masks) ==
    LET present == SelectSeq(masks, exists)
    IN  IF Len(present) = 0 THEN None
        ELSE Some(AndAll(present[1].v, [k \in 1 .. Len(present) - 1 |-> present[k + 1].v]))

\* ------------------------------------------------------------ the models

\* parameter names of a model (a Module's state_dict keys)
Params == {"w", "b"}

\* model(seq).softmax(-1).log() of the stand-in model: the log-probability, in
\* whole nats, that the model with parameter values params gives token v at
\* position i of row; some entries lie below log(eps)
ModelLogSoftmax(params, row, i, v) ==
    LET k == (params["w"] + 2 * params["b"] + i + v + Len(row)) % 4
    IN  IF k = 0 THEN LogEps - 14 ELSE 0 - k

\* log_prob_from_model_and_seq(model, seq): gather at the sequence's own token,
\* clamp(min = eps), log
log_prob_from_model_and_seq(params, seq) ==
    [r \in DOMAIN seq |->
        [i \in DOMAIN seq[r] |->
            LET lp == ModelLogSoftmax(params, seq[r], i, seq[r][i])
            IN  Rat(IF lp < LogEps THEN LogEps ELSE lp)]]

\* torch.arange(seq.shape[-1]) < prompt_len[:, None]
prompt_mask_of(seq, prompt_len) ==
    [r \in DOMAIN seq |-> [i \in DOMAIN seq[r] |-> (i - 1) < prompt_len[r]]]

\* seq != pad_id
not_pad(seq, pad_id) ==
    [r \in DOMAIN seq |-> [i \in DOMAIN seq[r] |-> seq[r][i] # pad_id]]

\* a plausible slip: the generated sequence is masked and overwritten before the
\* second assert looks at real_seq_mask
forward_pad_section_late_assert(pad_id, generated_seq, real_seq, generated_seq_mask, real_seq_mask) ==
    IF ~exists(pad_id)
    THEN [raised |-> FALSE, generated_seq |-> generated_seq, real_seq |-> real_seq,
          generated_seq_mask |-> generated_seq_mask, real_seq_mask |-> real_seq_mask]
    ELSE IF exists(generated_seq_mask)
    THEN [raised |-> TRUE, generated_seq |-> generated_seq, real_seq |-> real_seq,
          generated_seq_mask |-> generated_seq_mask, real_seq_mask |-> real_seq_mask]
    ELSE LET gm == not_pad(generated_seq, pad_id.v)
             gs == masked_fill(generated_seq, Not(gm), 0)
         IN  IF exists(real_seq_mask)
             THEN [raised |-> TRUE, generated_seq |-> gs, real_seq |-> real_seq,
                   generated_seq_mask |-> Some(gm), real_seq_mask |-> real_seq_mask]
             ELSE LET rm == not_pad(real_seq, pad_id.v)
                  IN  [raised |-> FALSE, generated_seq |-> gs,
                       real_seq |-> masked_fill(real_seq, Not(rm), 0),
                       generated_seq_mask |-> Some(gm), real_seq_mask |-> Some(rm)]

\* SPIN.forward, lines 121-128: with a pad id, the two asserts, then the masks
\* derived from the pad id and the pad positions overwritten with 0 in place.
\* The sequences here are the rows of rank-2 tensors.
forward_pad_section(pad_id, generated_seq, real_seq, generated_seq_mask, real_seq_mask) ==
    IF ~exists(pad_id)
    THEN [raised |-> FALSE, generated_seq |-> generated_seq, real_seq |-> real_seq,
          generated_seq_mask |-> generated_seq_mask, real_seq_mask |-> real_seq_mask]
    ELSE IF exists(generated_seq_mask) \/ exists(real_seq_mask)
    THEN [raised |-> TRUE, generated_seq |-> generated_seq, real_seq |-> real_seq,
          generated_seq_mask |-> generated_seq_mask, real_seq_mask |-> real_seq_mask]
    ELSE LET gm == not_pad(generated_seq, pad_id.v)
             rm == not_pad(real_seq, pad_id.v)
         IN  [raised |-> FALSE,
              generated_seq |-> masked_fill(generated_seq, Not(gm), 0),
              real_seq |-> masked_fill(real_seq, Not(rm), 0),
              generated_seq_mask |-> Some(gm), real_seq_mask |-> Some(rm)]

\* what SPIN.forward leaves when an assert fails: no model was called
ForwardRaised(generated_seq, real_seq) ==
    [raised |-> TRUE, generated_seq |-> generated_seq, real_seq |-> real_seq,
     model_calls |-> 0, ref_eval |-> FALSE]

\* SPIN.forward(generated_seq, real_seq, prompt_len, generated_seq_mask, real_seq_mask)
\* of a SPIN with pad id pad_id, policy parameters policy and reference
\* parameters ref.  A sequence argument is [ndim, rows].  The result holds the
\* two sequences as the call leaves them, the number of model forward passes
\* run, whether ref_model.eval() ran, and per row the four reduced
\* log-probabilities and the margin fed to -logsigmoid(lambda * margin).
SPIN_forward(pad_id, policy, ref, generated_seq, real_seq, prompt_len, generated_seq_mask, real_seq_mask) ==
    IF ~(generated_seq.ndim = 2 /\ real_seq.ndim = 2)
    THEN ForwardRaised(generated_seq, real_seq)
    ELSE
    LET real_prompt_mask      == prompt_mask_of(real_seq.rows, prompt_len)
        generated_prompt_mask == prompt_mask_of(generated_seq.rows, prompt_len)
        sec == forward_pad_section(pad_id, generated_seq.rows, real_seq.rows,
                                   generated_seq_mask, real_seq_mask)
        gseq == [ndim |-> 2, rows |-> sec.generated_seq]
        rseq == [ndim |-> 2, rows |-> sec.real_seq]
    IN
    IF sec.raised THEN ForwardRaised(gseq, rseq)
    ELSE
    LET ref_generated_logprob    == log_prob_from_model_and_seq(ref, gseq.rows)
        ref_real_logprob         == log_prob_from_model_and_seq(ref, rseq.rows)
        policy_generated_logprob == log_prob_from_model_and_seq(policy, gseq.rows)
        policy_real_logprob      == log_prob_from_model_and_seq(policy, rseq.rows)
        gmask == maybe_and_mask(<<sec.generated_seq_mask, Some(Not(generated_prompt_mask))>>)
        rmask == maybe_and_mask(<<sec.real_seq_mask, Some(Not(real_prompt_mask))>>)
        pg == masked_mean(policy_generated_logprob, gmask).mean
        rg == masked_mean(ref_generated_logprob, gmask).mean
        pr == masked_mean(policy_real_logprob, rmask).mean
        rr == masked_mean(ref_real_logprob, rmask).mean
    IN  [raised |-> FALSE, generated_seq |-> gseq, real_seq |-> rseq,
         model_calls |-> 4, ref_eval |-> TRUE,
         policy_generated_logprob |-> pg, ref_generated_logprob |-> rg,
         policy_real_logprob |-> pr, ref_real_logprob |-> rr,
         margin |-> [r \in DOMAIN pg |->
                        RatSub(RatSub(pr[r], rr[r]), RatSub(pg[r], rg[r]))]]

\* ------------------------------------------------------------------ state

VARIABLES
    mm_in,        \* masked_mean: the arguments [tensor, mask] of the call
    mm_out,       \* masked_mean: None, or Some([mean, tensor]) once it has returned
    fwd_in,       \* SPIN.forward: the SPIN's state and the call's arguments
    fwd_out,      \* SPIN.forward: None, or Some(result) once it has returned or raised
    store,        \* the heap of model objects: object id -> parameter values
    policy_model, \* id of the policy model (SPIN.policy_model, SPINTrainer.model)
    ref_model,    \* id of SPIN.ref_model; 0 while no SPIN has been constructed
    grad,         \* backward passes accumulated in each policy parameter's .grad
    loss,         \* None, or Some(margin) of a loss not yet backpropagated
    last_op,      \* the last operation that ran
    hist,         \* bookkeeping for the properties (not program state)
    tr            \* SPINTrainer: configuration, loop position and batch in hand

mmVars == <<mm_in, mm_out>>
fwdVars == <<fwd_in, fwd_out>>
spinVars == <<store, policy_model, ref_model, grad, loss, last_op, hist>>
vars == <<mm_in, mm_out, fwd_in, fwd_out,
          store, policy_model, ref_model, grad, loss, last_op, hist, tr>>

\* a variable of a part of the program that a specification leaves out
Idle == "idle"

\* ------------------------------------------------- masked_mean on its own

\* all-True mask of a tensor's shape
AllTrue(tensor) == [r \in DOMAIN tensor |-> [i \in DOMAIN tensor[r] |-> TRUE]]

\* the entries a float tensor is drawn from
MMValues == {Rat(0 - 2), Rat(0 - 1), NaN}

\* before the call: the length of the rows to come is fixed
MMInit ==
    /\ mm_in \in { [n |-> n] : n \in 1 .. MaxLen }
    /\ mm_out = None
    /\ fwd_in = Idle
    /\ fwd_out = Idle
    /\ store = Idle /\ policy_model = Idle /\ ref_model = Idle /\ grad = Idle
    /\ loss = Idle /\ last_op = Idle /\ hist = Idle /\ tr = Idle

\* one call masked_mean(tensor, mask), with a mask or with None
MaskedMeanCall ==
    /\ ~exists(mm_out)
    /\ \E t \in [Rows -> [1 .. mm_in.n -> MMValues]],
          b \in [Rows -> [1 .. mm_in.n -> BOOLEAN]],
          given \in BOOLEAN :
          LET mask == IF given THEN Some(b) ELSE None
          IN  /\ given \/ b = AllTrue(t)
              /\ mm_in' = [tensor |-> t, mask |-> mask]
              /\ mm_out' = Some(masked_mean(t, mask))
    /\ UNCHANGED <<fwd_in, fwd_out, spinVars, tr>>

MMNext == MaskedMeanCall

SpecMM == MMInit /\ [][MMNext]_vars

\* ------------------------------------------------- SPIN.forward on its own

\* the rows of a b x n integer tensor over the token set toks
SeqRows(n, toks) == [Rows -> [1 .. n -> toks]]

\* a rank-2 tensor
Tensor2(rows) == [ndim |-> 2, rows |-> rows]

\* a mask that keeps only the last position of each row
LastOnly(rows) == [r \in DOMAIN rows |-> [i \in DOMAIN rows[r] |-> i = Len(rows[r])]]

\* an explicit mask argument: None, all True, or the last position only
MaskArg(kind, rows) ==
    IF kind = 0 THEN None ELSE IF kind = 1 THEN Some(AllTrue(rows)) ELSE Some(LastOnly(rows))

FwdArgs(pad, g, r, pl, gm, rm) ==
    [pad_id |-> pad,
     policy |-> [p \in Params |-> 1], ref |-> [p \in Params |-> 0],
     generated_seq |-> g, real_seq |-> r, prompt_len |-> pl,
     generated_seq_mask |-> gm, real_seq_mask |-> rm]

\* before the call: the kind of call to come and the lengths of its sequences.
\*   "pad"     a pad id is configured and no explicit mask is passed
\*   "nopad"   no pad id; explicit masks, or none
\*   "badmask" a pad id is configured and an explicit mask is passed as well
\*   "badrank" a sequence is not of rank 2
LossInit ==
    /\ fwd_in \in
          { [kind |-> k, ng |-> ng, nr |-> nr] :
              k \in {"pad", "nopad"}, ng \in 1 .. MaxLen, nr \in 1 .. MaxLen }
          \cup { [kind |-> k, ng |-> 1, nr |-> 1] : k \in {"badmask", "badrank"} }
    /\ fwd_out = None
    /\ mm_in = Idle
    /\ mm_out = Idle
    /\ store = Idle /\ policy_model = Idle /\ ref_model = Idle /\ grad = Idle
    /\ loss = Idle /\ last_op = Idle /\ hist = Idle /\ tr = Idle

\* the call on the arguments a
ForwardOn(a) ==
    /\ fwd_in' = a
    /\ fwd_out' = Some(SPIN_forward(a.pad_id, a.policy, a.ref,
                                    a.generated_seq, a.real_seq, a.prompt_len,
                                    a.generated_seq_mask, a.real_seq_mask))

\* one call spin(generated_seq, real_seq, prompt_len, generated_seq_mask, real_seq_mask)
ForwardCall ==
    /\ ~exists(fwd_out)
    /\ UNCHANGED <<mm_in, mm_out, spinVars, tr>>
    /\ \/ /\ fwd_in.kind = "pad"
          /\ \E g \in SeqRows(fwd_in.ng, Vocab \cup {PadId}),
                r \in SeqRows(fwd_in.nr, Vocab \cup {PadId}),
                pl \in [Rows -> 0 .. MaxLen] :
                ForwardOn(FwdArgs(Some(PadId), Tensor2(g), Tensor2(r), pl, None, None))
       \/ /\ fwd_in.kind = "nopad"
          /\ \E g \in SeqRows(fwd_in.ng, Vocab), r \in SeqRows(fwd_in.nr, Vocab),
                pl \in [Rows -> 0 .. MaxLen], kg \in 0 .. 2, kr \in 0 .. 2 :
                ForwardOn(FwdArgs(None, Tensor2(g), Tensor2(r), pl,
                                  MaskArg(kg, g), MaskArg(kr, r)))
       \/ /\ fwd_in.kind = "badmask"
          /\ \E g \in SeqRows(fwd_in.ng, Vocab \cup {PadId}),
                r \in SeqRows(fwd_in.nr, Vocab \cup {PadId}),
                pl \in [Rows -> 0 .. 1], kg \in 0 .. 1, kr \in 0 .. 1 :
                /\ kg + kr > 0
                /\ ForwardOn(FwdArgs(Some(PadId), Tensor2(g), Tensor2(r), pl,
                                     MaskArg(kg, g), MaskArg(kr, r)))
       \/ /\ fwd_in.kind = "badrank"
          /\ \E g \in SeqRows(fwd_in.ng, Vocab \cup {PadId}),
                r \in SeqRows(fwd_in.nr, Vocab \cup {PadId}),
                pl \in [Rows -> 0 .. 1], dg \in 1 .. 3, dr \in 1 .. 3,
                pad \in {None, Some(PadId)} :
                /\ dg # 2 \/ dr # 2
                /\ ForwardOn(FwdArgs(pad, [ndim |-> dg, rows |-> g],
                                     [ndim |-> dr, rows |-> r], pl, None, None))

LossNext == ForwardCall

SpecLoss == LossInit /\ [][LossNext]_vars

\* ------------------------------------------------ the SPIN object's life

\* parameter values of a freshly built model: every parameter at version 0.
\* A parameter's value is named by the number of optimizer updates applied to
\* it; equal versions are equal values.
FreshParams == [p \in Params |-> 0]
NoGrad == [p \in Params |-> 0]

\* a plausible slip: the reference is the policy object itself, not a copy
deepcopy_alias(st, id) == [store |-> st, id |-> id]

\* deepcopy(model): a new object holding the same parameter values
deepcopy(st, id) == [store |-> Append(st, st[id]), id |-> Len(st) + 1]

\* SPIN.__init__(model): policy_model is the model itself, ref_model a deep copy
SPIN_init(st, model) ==
    LET c == deepcopy(st, model)
    IN  [store |-> c.store, policy_model |-> model, ref_model |-> c.id]

\* model.state_dict()
state_dict(st, id) == st[id]

\* a plausible slip: only the first parameter is loaded
load_state_dict_partial(st, id, state) ==
    [st EXCEPT ![id] = [p \in Params |-> IF p = "w" THEN state[p] ELSE @[p]]]

\* model.load_state_dict(state): every parameter of the object is overwritten
load_state_dict(st, id, state) == [st EXCEPT ![id] = state]

\* optimizer.step(): the optimizer holds the parameters of object id and
\* updates each one that has a gradient
optimizer_step(st, id, g) ==
    [st EXCEPT ![id] = [p \in Params |-> IF g[p] > 0 THEN @[p] + 1 ELSE @[p]]]

\* loss.backward(): the graph reaches the policy's parameters only (the
\* reference ran under no_grad and is frozen)
backward(g) == [p \in Params |-> g[p] + 1]

\* after SPIN(model) on a freshly built model
SpinInit ==
    /\ LET s == SPIN_init(<<FreshParams>>, 1)
       IN  /\ store = s.store
           /\ policy_model = s.policy_model
           /\ ref_model = s.ref_model
    /\ grad = NoGrad
    /\ loss = None
    /\ last_op = "init"
    /\ hist = [snapshot |-> FreshParams, forwards |-> 0, steps |-> 0, total_steps |-> 0]
    /\ mm_in = Idle /\ mm_out = Idle /\ fwd_in = Idle /\ fwd_out = Idle /\ tr = Idle

\* the calls of compute_loss a caller makes here: one within the contract, on
\* batches of different lengths with pad positions, one with a rank-3
\* sequence, one with an explicit mask beside the pad id
SampleCall(kind) ==
    LET g == [r \in Rows |-> <<0, PadId>>]
        r == [r \in Rows |-> <<0, 0, PadId>>]
    IN  FwdArgs(Some(PadId),
                [ndim |-> IF kind = "badrank" THEN 3 ELSE 2, rows |-> g],
                Tensor2(r), [x \in Rows |-> x - 1],
                None, MaskArg(IF kind = "badmask" THEN 1 ELSE 0, r))

\* the caller runs compute_loss: spin(generated_seq, real_seq, prompt_len, ...)
SpinForward ==
    /\ \E kind \in {"ok", "badrank", "badmask"} :
          LET a   == SampleCall(kind)
              res == SPIN_forward(a.pad_id, store[policy_model], store[ref_model],
                                  a.generated_seq, a.real_seq, a.prompt_len,
                                  a.generated_seq_mask, a.real_seq_mask)
          IN  /\ loss' = IF res.raised THEN loss ELSE Some(res.margin)
              /\ last_op' = IF res.raised THEN "forward_raised" ELSE "forward"
              /\ hist' = IF res.raised THEN hist
                         ELSE [hist EXCEPT !.forwards = IF @ < 2 THEN @ + 1 ELSE @]
    /\ UNCHANGED <<store, policy_model, ref_model, grad>>
    /\ UNCHANGED <<mmVars, fwdVars, tr>>

\* the caller backpropagates the loss in hand
SpinBackward ==
    /\ exists(loss)
    /\ \A p \in Params : grad[p] < MaxAccum
    /\ grad' = backward(grad)
    /\ loss' = None
    /\ last_op' = "backward"
    /\ UNCHANGED <<store, policy_model, ref_model, hist>>
    /\ UNCHANGED <<mmVars, fwdVars, tr>>

\* the caller steps an optimizer built on spin.parameters(), the policy's
SpinOptimizerStep ==
    /\ hist.total_steps < MaxSteps
    /\ \E p \in Params : grad[p] > 0
    /\ store' = optimizer_step(store, policy_model, grad)
    /\ last_op' = "step"
    /\ hist' = [hist EXCEPT !.steps = @ + 1, !.total_steps = @ + 1]
    /\ UNCHANGED <<policy_model, ref_model, grad, loss>>
    /\ UNCHANGED <<mmVars, fwdVars, tr>>

\* the caller clears the gradients
SpinZeroGrad ==
    /\ \E p \in Params : grad[p] > 0
    /\ grad' = NoGrad
    /\ last_op' = "zero_grad"
    /\ UNCHANGED <<store, policy_model, ref_model, loss, hist>>
    /\ UNCHANGED <<mmVars, fwdVars, tr>>

\* SPIN.update_reference_model_with_policy()
UpdateReferenceModelWithPolicy ==
    /\ store' = load_state_dict(store, ref_model, state_dict(store, policy_model))
    /\ last_op' = "sync"
    /\ hist' = [hist EXCEPT !.snapshot = store[policy_model], !.forwards = 0, !.steps = 0]
    /\ UNCHANGED <<policy_model, ref_model, grad, loss>>
    /\ UNCHANGED <<mmVars, fwdVars, tr>>

Next ==
    \/ SpinForward
    \/ SpinBackward
    \/ SpinOptimizerStep
    \/ SpinZeroGrad
    \/ UpdateReferenceModelWithPolicy

Spec == SpinInit /\ [][Next]_vars

\* ------------------------------------------------------ the training round

\* the dataset: example i is a real sequence of MaxLen + 1 tokens, padded at
\* its last position when i is even, and its prompt length
ExampleSeq(i) ==
    [k \in 1 .. MaxLen + 1 |-> IF k = MaxLen + 1 /\ i % 2 = 0 THEN PadId ELSE 0]
ExamplePromptLen(i) == 1 + (i % 2)

\* the elements of a set of integers in increasing order
RECURSIVE SortedSeq(_)
SortedSeq(S) ==
    IF S = {} THEN <<>>
    ELSE LET m == CHOOSE x \in S : \A y \in S : x <= y
         IN  <<m>> \o SortedSeq(S \ {m})

\* a plausible slip: drop_last = False, the last short batch is served too
next_batches_keep_last(remaining, batch_size) ==
    IF Cardinality(remaining) >= batch_size
    THEN {B \in SUBSET remaining : Cardinality(B) = batch_size}
    ELSE IF remaining = {} THEN {} ELSE {remaining}

\* DataLoader(sft_dataset, batch_size, shuffle = True, drop_last = True): the
\* batches the iterator may serve next when the examples in remaining have not
\* been served this epoch; none when fewer than batch_size are left
next_batches(remaining, batch_size) ==
    IF Cardinality(remaining) >= batch_size
    THEN {B \in SUBSET remaining : Cardinality(B) = batch_size}
    ELSE {}

\* pad_sequence(seqs, padding_value, batch_first = True)
RECURSIVE MaxRowLen(_)
MaxRowLen(seqs) ==
    IF seqs = <<>> THEN 0
    ELSE LET m == MaxRowLen(Tail(seqs))
         IN  IF Len(seqs[1]) > m THEN Len(seqs[1]) ELSE m
pad_sequence(seqs, padding_value) ==
    LET n == MaxRowLen(seqs)
    IN  [r \in DOMAIN seqs |->
            [i \in 1 .. n |-> IF i <= Len(seqs[r]) THEN seqs[r][i] ELSE padding_value]]

Examples == 1 .. MaxData

\* after SPINTrainer(model, sft_dataset, ...) on a freshly built model
TrainerInit ==
    /\ store = <<FreshParams>>
    /\ policy_model = 1
    /\ ref_model = 0
    /\ grad = NoGrad
    /\ loss = None
    /\ last_op = "init"
    /\ hist = [round_start |-> FreshParams, first_snapshot |-> FreshParams,
               sampled_from |-> FreshParams]
    /\ tr \in { [n |-> n, batch_size |-> b, epochs |-> e,
                 pc |-> "idle", round |-> 0, epoch |-> 0,
                 remaining |-> {}, seen |-> [i \in Examples |-> 0],
                 batch |-> <<>>, prompts |-> <<>>, generated_seqs |-> <<>>,
                 fetched |-> 0, steps |-> 0, err |-> "none"] :
               n \in 0 .. MaxData, b \in 1 .. MaxBatch, e \in 0 .. MaxEpochs }
    /\ mm_in = Idle /\ mm_out = Idle /\ fwd_in = Idle /\ fwd_out = Idle

Dataset == 1 .. tr.n

\* SPINTrainer.forward is entered: a SPIN is built on the model, and the
\* loops begin (the SPIN of an earlier call is gone with that call).  A
\* trainer whose round raised is not run again here.
StartRound ==
    /\ tr.pc \in {"idle", "done"}
    /\ tr.round < MaxRounds
    /\ LET s == SPIN_init(<<store[policy_model]>>, 1)
       IN  /\ store' = s.store
           /\ policy_model' = s.policy_model
           /\ ref_model' = s.ref_model
    /\ loss' = None
    /\ last_op' = "start"
    /\ hist' = [hist EXCEPT !.round_start = store[policy_model],
                            !.first_snapshot = IF tr.round = 0 THEN store[policy_model] ELSE @]
    /\ tr' = [tr EXCEPT !.pc = IF tr.epochs = 0 THEN "done" ELSE "fetch",
                        !.round = @ + 1, !.epoch = 0,
                        !.remaining = Dataset, !.seen = [i \in Examples |-> 0],
                        !.batch = <<>>, !.prompts = <<>>, !.generated_seqs = <<>>,
                        !.fetched = 0, !.steps = 0, !.err = "none"]
    /\ UNCHANGED <<grad, mmVars, fwdVars>>

\* the data loader serves the next batch of the epoch
Fetch ==
    /\ tr.pc = "fetch"
    /\ \E B \in next_batches(tr.remaining, tr.batch_size) :
          tr' = [tr EXCEPT !.pc = "split",
                           !.batch = SortedSeq(B),
                           !.remaining = @ \ B,
                           !.seen = [i \in Examples |-> IF i \in B THEN @[i] + 1 ELSE @[i]],
                           !.fetched = @ + 1]
    /\ last_op' = "fetch"
    /\ UNCHANGED <<store, policy_model, ref_model, grad, loss, hist, mmVars, fwdVars>>

\* a plausible slip: the round ends with the first epoch
EndEpochBreak ==
    /\ tr.pc = "fetch"
    /\ next_batches(tr.remaining, tr.batch_size) = {}
    /\ tr' = [tr EXCEPT !.epoch = @ + 1, !.pc = "done"]
    /\ last_op' = "end_epoch"
    /\ UNCHANGED <<store, policy_model, ref_model, grad, loss, hist, mmVars, fwdVars>>

\* the data loader is exhausted: the next epoch begins with a new iterator,
\* or the round is complete
EndEpoch ==
    /\ tr.pc = "fetch"
    /\ next_batches(tr.remaining, tr.batch_size) = {}
    /\ tr' = IF tr.epoch + 1 < tr.epochs
             THEN [tr EXCEPT !.epoch = @ + 1, !.remaining = Dataset,
                             !.seen = [i \in Examples |-> 0]]
             ELSE [tr EXCEPT !.epoch = @ + 1, !.pc = "done"]
    /\ last_op' = "end_epoch"
    /\ UNCHANGED <<store, policy_model, ref_model, grad, loss, hist, mmVars, fwdVars>>

\* lines 216-220: each row's prompt, its first prompt_len tokens
Split ==
    /\ tr.pc = "split"
    /\ tr' = [tr EXCEPT !.pc = "generate",
                        !.prompts = [k \in DOMAIN tr.batch |->
                                        SubSeq(ExampleSeq(tr.batch[k]), 1,
                                               ExamplePromptLen(tr.batch[k]))],
                        !.generated_seqs = <<>>]
    /\ last_op' = "split"
    /\ UNCHANGED <<store, policy_model, ref_model, grad, loss, hist, mmVars, fwdVars>>

\* lines 222-235: the sampler continues the next prompt from the policy, by
\* at most max_seq_len tokens
Generate ==
    /\ tr.pc = "generate"
    /\ \E c \in 0 .. MaxSeqLen :
          LET prompt == tr.prompts[Len(tr.generated_seqs) + 1]
              one_generated_seq == [k \in 1 .. c |-> 0]
              seqs == Append(tr.generated_seqs, prompt \o one_generated_seq)
          IN  tr' = [tr EXCEPT !.generated_seqs = seqs,
                               !.pc = IF Len(seqs) = Len(tr.prompts) THEN "pad" ELSE "generate"]
    /\ hist' = [hist EXCEPT !.sampled_from = store[policy_model]]
    /\ last_op' = "generate"
    /\ UNCHANGED <<store, policy_model, ref_model, grad, loss, mmVars, fwdVars>>

\* line 237
Pad ==
    /\ tr.pc = "pad"
    /\ tr' = [tr EXCEPT !.pc = "score",
                        !.generated_seqs = pad_sequence(tr.generated_seqs, PadId)]
    /\ last_op' = "pad"
    /\ UNCHANGED <<store, policy_model, ref_model, grad, loss, hist, mmVars, fwdVars>>

\* lines 239-243: the SPIN objective on the real and the generated batch
Score ==
    /\ tr.pc = "score"
    /\ LET real_seq   == [k \in DOMAIN tr.batch |-> ExampleSeq(tr.batch[k])]
           prompt_len == [k \in DOMAIN tr.batch |-> ExamplePromptLen(tr.batch[k])]
           res == SPIN_forward(Some(PadId), store[policy_model], store[ref_model],
                               Tensor2(tr.generated_seqs), Tensor2(real_seq), prompt_len,
                               None, None)
       IN  IF res.raised
           THEN /\ tr' = [tr EXCEPT !.pc = "raised", !.err = "objective"]
                /\ loss' = loss
           ELSE /\ tr' = [tr EXCEPT !.pc = "backward"]
                /\ loss' = Some(res.margin)
    /\ last_op' = "score"
    /\ UNCHANGED <<store, policy_model, ref_model, grad, hist, mmVars, fwdVars>>

\* line 245
Backward ==
    /\ tr.pc = "backward"
    /\ grad' = backward(grad)
    /\ loss' = None
    /\ tr' = [tr EXCEPT !.pc = "step"]
    /\ last_op' = "backward"
    /\ UNCHANGED <<store, policy_model, ref_model, hist, mmVars, fwdVars>>

\* line 247
OptimizerStep ==
    /\ tr.pc = "step"
    /\ store' = optimizer_step(store, policy_model, grad)
    /\ tr' = [tr EXCEPT !.pc = "zero_grad", !.steps = @ + 1]
    /\ last_op' = "step"
    /\ UNCHANGED <<policy_model, ref_model, grad, loss, hist, mmVars, fwdVars>>

\* a plausible slip: the gradients are not cleared
ZeroGradSkipped ==
    /\ tr.pc = "zero_grad"
    /\ tr' = [tr EXCEPT !.pc = "fetch", !.batch = <<>>, !.prompts = <<>>,
                        !.generated_seqs = <<>>]
    /\ last_op' = "zero_grad"
    /\ UNCHANGED <<store, policy_model, ref_model, grad, loss, hist, mmVars, fwdVars>>

\* line 248; the batch's tensors are dropped as the loop goes round
ZeroGrad ==
    /\ tr.pc = "zero_grad"
    /\ grad' = NoGrad
    /\ tr' = [tr EXCEPT !.pc = "fetch", !.batch = <<>>, !.prompts = <<>>,
                        !.generated_seqs = <<>>]
    /\ last_op' = "zero_grad"
    /\ UNCHANGED <<store, policy_model, ref_model, loss, hist, mmVars, fwdVars>>

\* the collaborator that the loop is about to call, and that may raise
Stage(pc) ==
    IF pc = "fetch" THEN "data source"
    ELSE IF pc = "generate" THEN "sampler"
    ELSE IF pc = "score" THEN "objective"
    ELSE IF pc = "backward" THEN "backward"
    ELSE "optimizer"

FailPoints == {"fetch", "generate", "score", "backward", "step", "zero_grad"}

\* a plausible slip: the error is caught and the loop goes on to the next batch
FailSwallowed ==
    /\ tr.pc \in FailPoints
    /\ tr' = [tr EXCEPT !.pc = "fetch", !.err = Stage(tr.pc)]
    /\ last_op' = "fail"
    /\ UNCHANGED <<store, policy_model, ref_model, grad, loss, hist, mmVars, fwdVars>>

\* the call the loop makes at this point raises: nothing in lines 213-248
\* catches it, so it leaves SPINTrainer.forward and the call's locals are
\* gone.  An optimizer that raises may have updated some of the parameters
\* already.
Fail ==
    /\ tr.pc \in FailPoints
    /\ tr' = [tr EXCEPT !.pc = "raised", !.err = Stage(tr.pc), !.batch = <<>>,
                        !.prompts = <<>>, !.generated_seqs = <<>>]
    /\ last_op' = "fail"
    /\ \E done \in SUBSET Params :
          /\ done # Params
          /\ tr.pc # "step" => done = {}
          /\ store' = optimizer_step(store, policy_model,
                                     [p \in Params |-> IF p \in done THEN grad[p] ELSE 0])
    /\ loss' = None
    /\ UNCHANGED <<policy_model, ref_model, grad, hist, mmVars, fwdVars>>

\* the steps of the loop itself
RoundStep ==
    \/ Fetch
    \/ EndEpoch
    \/ Split
    \/ Generate
    \/ Pad
    \/ Score
    \/ Backward
    \/ OptimizerStep
    \/ ZeroGrad

TrainerNext ==
    \/ StartRound
    \/ RoundStep
    \/ Fail

SpecTrainer == TrainerInit /\ [][TrainerNext]_vars

\* what the loop does next: the call it is at raises, or the stage completes
RoundCall == Fail \/ RoundStep

\* the interpreter keeps running the loop once forward is entered: the call the
\* loop is at does return or raise
FairSpecTrainer == SpecTrainer /\ WF_vars(RoundCall)

\* ------------------------------------------------------------ properties

\* sum of f over a finite set of positions
RECURSIVE SumOver(_, _)
SumOver(S, f) ==
    IF S = {} THEN Rat(0)
    ELSE LET i == CHOOSE x \in S : TRUE IN RatAdd(f[i], SumOver(S \ {i}, f))

\* C6: masked_mean returns exactly 0 for every row whose mask has no True
\* position, whatever the row holds, and for every other row the sum of the
\* values at the True positions divided by the number of True positions.
C6_MaskedMeanRows ==
    (exists(mm_out) /\ exists(mm_in.mask)) =>
        \A r \in DOMAIN mm_in.tensor :
            LET T == {i \in DOMAIN mm_in.tensor[r] : mm_in.mask.v[r][i]}
            IN  IF T = {}
                THEN mm_out.v.mean[r] = Rat(0)
                ELSE RatSame(mm_out.v.mean[r],
                             RatDiv(SumOver(T, mm_in.tensor[r]), Rat(Cardinality(T))))

\* C6 witness: the call has returned for a tensor with one row masked out
\* entirely that holds a NaN, and one row with a True and a False position
C6_Witness ==
    /\ exists(mm_out) /\ exists(mm_in.mask)
    /\ \E r \in DOMAIN mm_in.tensor :
          /\ \A i \in DOMAIN mm_in.tensor[r] : ~mm_in.mask.v[r][i]
          /\ \E i \in DOMAIN mm_in.tensor[r] : IsNaN(mm_in.tensor[r][i])
          /\ mm_out.v.mean[r] = Rat(0)
    /\ \E r \in DOMAIN mm_in.tensor :
          /\ \E i \in DOMAIN mm_in.tensor[r] : mm_in.mask.v[r][i]
          /\ \E i \in DOMAIN mm_in.tensor[r] :
                ~mm_in.mask.v[r][i] /\ mm_in.tensor[r][i] # Rat(0)

\* the arguments of a forward call break its contract
ContractViolation(a) ==
    \/ a.generated_seq.ndim # 2
    \/ a.real_seq.ndim # 2
    \/ exists(a.pad_id) /\ (exists(a.generated_seq_mask) \/ exists(a.real_seq_mask))

\* C4: a forward call with a sequence not of rank 2, or with a pad id and an
\* explicit mask, raises; no model forward pass has run and neither input
\* sequence has been overwritten.
C4_RejectedBeforeComputation ==
    (exists(fwd_out) /\ ContractViolation(fwd_in)) =>
        /\ fwd_out.v.raised
        /\ fwd_out.v.model_calls = 0
        /\ fwd_out.v.generated_seq = fwd_in.generated_seq
        /\ fwd_out.v.real_seq = fwd_in.real_seq

\* C4 witness: the call raised on a pad id with an explicit real mask only,
\* and the generated sequence holds a pad position that masking would overwrite
C4_Witness ==
    /\ exists(fwd_out) /\ fwd_out.v.raised
    /\ fwd_in.generated_seq.ndim = 2 /\ fwd_in.real_seq.ndim = 2
    /\ exists(fwd_in.pad_id)
    /\ ~exists(fwd_in.generated_seq_mask) /\ exists(fwd_in.real_seq_mask)
    /\ \E r \in Rows : fwd_in.generated_seq.rows[r][1] = PadId

\* the positions of row r of seq (as passed) at or after the row's prompt_len
\* that do not hold the pad id
Continuation(seq, prompt_len, r) ==
    {i \in DOMAIN seq.rows[r] : (i - 1) >= prompt_len[r] /\ seq.rows[r][i] # PadId}

\* the mean over the set S of positions of the per-token log-probabilities lp
MeanOver(S, lp) == IF S = {} THEN Rat(0) ELSE RatDiv(SumOver(S, lp), Rat(Cardinality(S)))

\* C5: with a pad id, each row's reduced log-probability, of policy and
\* reference on real and generated, is the mean of the per-token
\* log-probabilities over exactly the positions at or after the row's
\* prompt_len that do not hold the pad id (0 when there is none).
C5_ContinuationMean ==
    (exists(fwd_out) /\ ~fwd_out.v.raised /\ exists(fwd_in.pad_id)) =>
        LET o  == fwd_out.v
            lpg(m) == log_prob_from_model_and_seq(m, o.generated_seq.rows)
            lpr(m) == log_prob_from_model_and_seq(m, o.real_seq.rows)
        IN  \A r \in Rows :
            LET G == Continuation(fwd_in.generated_seq, fwd_in.prompt_len, r)
                R == Continuation(fwd_in.real_seq, fwd_in.prompt_len, r)
            IN  /\ RatSame(o.policy_generated_logprob[r], MeanOver(G, lpg(fwd_in.policy)[r]))
                /\ RatSame(o.ref_generated_logprob[r], MeanOver(G, lpg(fwd_in.ref)[r]))
                /\ RatSame(o.policy_real_logprob[r], MeanOver(R, lpr(fwd_in.policy)[r]))
                /\ RatSame(o.ref_real_logprob[r], MeanOver(R, lpr(fwd_in.ref)[r]))

\* C5 witness: a call has returned for batches of different lengths, with rows
\* of different prompt_len; one row has a prompt and a continuation, one row
\* has a pad position outside its prompt and a continuation
C5_Witness ==
    /\ exists(fwd_out) /\ ~fwd_out.v.raised /\ exists(fwd_in.pad_id)
    /\ Len(fwd_in.generated_seq.rows[1]) # Len(fwd_in.real_seq.rows[1])
    /\ fwd_in.prompt_len[1] # fwd_in.prompt_len[2]
    /\ \E r \in Rows :
          /\ Continuation(fwd_in.real_seq, fwd_in.prompt_len, r) # {}
          /\ fwd_in.prompt_len[r] > 0
    /\ \E r \in Rows :
          /\ Continuation(fwd_in.real_seq, fwd_in.prompt_len, r) # {}
          /\ \E i \in DOMAIN fwd_in.real_seq.rows[r] :
                (i - 1) >= fwd_in.prompt_len[r] /\ fwd_in.real_seq.rows[r][i] = PadId

\* C1: whatever compute_loss calls and optimizer steps have run since, every
\* reference parameter has the value it had at the last snapshot
\* (construction, or the last update_reference_model_with_policy).
C1_ReferenceKeepsSnapshot ==
    \A p \in Params : store[ref_model][p] = hist.snapshot[p]

\* C1 witness: since the last snapshot two compute_loss calls and an optimizer
\* step have run, and the policy has moved away from the reference
C1_Witness ==
    /\ hist.forwards >= 2 /\ hist.steps >= 1
    /\ \A p \in Params : store[policy_model][p] # store[ref_model][p]
    /\ store[ref_model] = hist.snapshot

\* C2: a step of update_reference_model_with_policy leaves every reference
\* parameter equal to the policy's current value and the policy as it was.
C2_SyncOverwritesAll ==
    [][last_op' = "sync" =>
          /\ \A p \in Params : store'[ref_model'][p] = store'[policy_model'][p]
          /\ store'[policy_model'] = store[policy_model]]_vars

\* C2 witness: just after a sync that followed optimizer steps: every reference
\* parameter has left its construction value and equals the policy's
C2_Witness ==
    /\ last_op = "sync"
    /\ \A p \in Params : store[ref_model][p] > 0
    /\ store[ref_model] = store[policy_model]

\* the policy's parameters after k more updates of each than at the round's start
RoundStartPlus(k) == [p \in Params |-> hist.round_start[p] + k]

\* C3 as stated: the reference is created once for the trainer, so in a
\* second round it is still the snapshot taken before the first round.
C3_Original ==
    (tr.round >= 2 /\ tr.pc = "score") => store[ref_model] = hist.first_snapshot

\* C3 amended: every call of SPINTrainer.forward takes a new snapshot; from
\* then to the end of that round, through all its epochs and batches, the
\* reference holds the policy's parameters as they were when the round began.
C3_SnapshotPerRound ==
    tr.round >= 1 => store[ref_model] = hist.round_start

\* C3 witness: scoring in the second epoch of a second round, with a reference
\* that is the policy of this round's start, not of the first round's
C3_Witness ==
    /\ tr.round = 2 /\ tr.pc = "score" /\ tr.epoch >= 1
    /\ store[ref_model] = hist.round_start
    /\ store[ref_model] # hist.first_snapshot
    /\ store[ref_model] # store[policy_model]

\* the data loader has nothing more to serve this epoch
EpochOver == tr.pc = "fetch" /\ next_batches(tr.remaining, tr.batch_size) = {}

\* C7 as stated: when an epoch is over, each example of the dataset has been
\* fetched in exactly one batch, for every dataset size and batch size.
C7_Original ==
    EpochOver => \A e \in Dataset : tr.seen[e] = 1

\* C7 amended: no example is fetched twice in an epoch, and an epoch fetches
\* exactly floor(n / batch_size) full batches: the n mod batch_size examples
\* the shuffle leaves for a last short batch are not fetched in that epoch.
C7_FullBatchesOnce ==
    /\ \A e \in Examples : tr.seen[e] <= 1
    /\ EpochOver =>
          Cardinality({e \in Dataset : tr.seen[e] = 1})
              = (tr.n \div tr.batch_size) * tr.batch_size

\* C7 witness: the second epoch is over with one example never fetched in it
C7_Witness ==
    /\ EpochOver /\ tr.epoch >= 1
    /\ \E e \in Dataset : tr.seen[e] = 0
    /\ \E e \in Dataset : tr.seen[e] = 1

\* C8: a round that has begun ends, by completion or by an error that leaves
\* it; when it completes, exactly `epochs` passes were made, each over every
\* full batch, and one optimizer step was taken per fetched batch.
C8_RoundTerminates ==
    /\ [](tr.pc = "done" =>
            /\ tr.epoch = tr.epochs
            /\ tr.steps = tr.fetched
            /\ tr.fetched = tr.epochs * (tr.n \div tr.batch_size))
    /\ (tr.pc \notin {"idle", "done", "raised"}) ~> (tr.pc \in {"done", "raised"})

\* C8 witness: a round of two epochs is complete, with the steps of its batches
C8_Witness ==
    /\ tr.pc = "done" /\ tr.epochs = 2 /\ tr.epoch = 2
    /\ tr.fetched >= 2 /\ tr.steps = tr.fetched

\* C9: the step on which a call raises leaves the round at that batch, with no
\* further fetch or optimizer step counted and no parameter below the updates
\* of the batches before; afterwards nothing of the round moves.
C9_HaltsAtFailure ==
    [][/\ (tr.err = "none" /\ tr'.err # "none") =>
              /\ tr'.pc = "raised"
              /\ tr'.fetched = tr.fetched /\ tr'.steps = tr.steps
              /\ tr'.remaining = tr.remaining
              /\ \A p \in Params :
                    store'[policy_model'][p] >= hist.round_start[p] + tr.steps
       /\ tr.err # "none" => UNCHANGED <<store, grad, tr>>]_vars

\* C9 witness: the optimizer raised on a batch after at least one batch was
\* completed, with a further full batch left unserved
C9_Witness ==
    /\ tr.pc = "raised" /\ tr.err = "optimizer"
    /\ tr.steps >= 1 /\ tr.fetched = tr.steps + 1
    /\ next_batches(tr.remaining, tr.batch_size) # {}
    /\ \A p \in Params : store[policy_model][p] >= hist.round_start[p] + tr.steps

\* the order of the loop's positions
StageOrder ==
    {<<"idle", "fetch">>, <<"idle", "done">>, <<"done", "fetch">>, <<"done", "done">>,
     <<"fetch", "split">>, <<"split", "generate">>, <<"generate", "generate">>,
     <<"generate", "pad">>, <<"pad", "score">>, <<"score", "backward">>,
     <<"backward", "step">>, <<"step", "zero_grad">>, <<"zero_grad", "fetch">>,
     <<"fetch", "fetch">>, <<"fetch", "done">>}

\* C10: the positions of a batch follow in the fixed order; while a batch is
\* generated and scored the policy holds every update of the earlier batches
\* of the round and the sampler read exactly that policy; no gradient of an
\* earlier batch is present before the batch's own backward pass.
C10_BatchOrder ==
    /\ [][tr'.pc = "raised" \/ <<tr.pc, tr'.pc>> \in StageOrder]_vars
    /\ [](/\ tr.pc \in {"split", "generate", "pad", "score", "backward", "step"} =>
               store[policy_model] = RoundStartPlus(tr.fetched - 1)
          /\ tr.pc \in {"pad", "score", "backward", "step"} =>
               /\ hist.sampled_from = RoundStartPlus(tr.fetched - 1)
               /\ Len(tr.generated_seqs) = tr.batch_size
          /\ (tr.pc \in {"split", "generate", "pad", "score", "backward"} /\ tr.fetched > 1) =>
               grad = NoGrad
          /\ (tr.pc = "step" /\ tr.fetched > 1) => grad = [p \in Params |-> 1]
          /\ tr.pc = "zero_grad" => store[policy_model] = RoundStartPlus(tr.fetched))

\* C10 witness: the second batch of a round is about to be scored, its rows
\* sampled from the policy as updated by the first batch
C10_Witness ==
    /\ tr.pc = "score" /\ tr.fetched = 2 /\ tr.steps = 1
    /\ Len(tr.generated_seqs) = 2
    /\ hist.sampled_from = RoundStartPlus(1)
    /\ store[policy_model] # hist.round_start
    /\ grad = NoGrad

====
